---- MODULE Spec2Model ----
(***************************************************************************)
(* Multi-provider AI orchestration layer of CodeCrackr: the AIProvider     *)
(* class hierarchy (base.py, openai_provider.py, gemini_provider.py,       *)
(* openrouter_provider.py) and the AIManager that registers adapters and   *)
(* selects one per call (ai_manager.py), with the admin dashboard that     *)
(* writes credentials into the process environment (admin/__init__.py),    *)
(* and the in-memory task store of the web application with its           *)
(* background workers and cleanup thread (app.py).                         *)
(*                                                                         *)
(* Python strings built by f-strings are sequences of pieces, Python dicts *)
(* are functions over their keys, Python lists are sequences and the value *)
(* None is the string "None".                                              *)
(***************************************************************************)
EXTENDS Integers, Sequences, FiniteSets, TLC

VARIABLES environ, config, manager, call, ret,
          processing_status, threads, now

vars == <<environ, config, manager, call, ret,
         processing_status, threads, now>>

\* the task store of app.py with its worker threads and the clock
taskvars == <<processing_status, threads, now>>

None == "None"

\* ------------------------------------------------------------------ bounds

\* longest backend reply, in tokens
MaxReply == 4

\* ------------------------------------------------------------ environment

\* the registry names, in the order load_providers inserts them
Backends == <<"openai", "gemini", "openrouter">>

BackendSet == {Backends[i] : i \in 1..Len(Backends)}

\* the backends whose adapter builds a client handle in its constructor
SdkBackends == {"openai", "gemini"}

\* values of an *_API_KEY setting: unset, set to the empty string, set
KeyValues == {None, "", "sk-key"}

\* Python truthiness of an optional string
Truthy(s) == s # None /\ s # ""

\* ------------------------------------------------------- class hierarchy

Classes == {"OpenAI", "Gemini", "OpenRouter", "Mock"}

\* methods AIProvider declares with @abstractmethod
AbstractMethods ==
    {"generate_file_analysis", "generate_repository_summary",
     "generate_architecture_diagram", "is_available"}

\* methods of AIProvider that OpenRouterProvider overrides
OpenRouterMethods ==
    {"__init__", "generate_file_analysis", "generate_repository_summary",
     "generate_architecture_diagram"}

\* methods of AIProvider that the Manager's inner MockProvider overrides
MockMethods ==
    {"__init__", "generate_file_analysis", "generate_repository_summary",
     "generate_architecture_diagram"}

\* methods of AIProvider that each concrete class overrides
Overrides(cls) ==
    CASE cls = "OpenAI" ->
            {"__init__", "is_available", "generate_file_analysis",
             "generate_repository_summary", "generate_architecture_diagram"}
      [] cls = "Gemini" ->
            {"__init__", "is_available", "generate_file_analysis",
             "generate_repository_summary", "generate_architecture_diagram"}
      [] cls = "OpenRouter" -> OpenRouterMethods
      [] cls = "Mock" -> MockMethods

\* ABCMeta: a class is instantiable iff no abstract method is left
\* without an override; otherwise the constructor call raises TypeError
Instantiable(cls) == AbstractMethods \subseteq Overrides(cls)

\* AIProvider.__init__
AIProviderInit(cls, name, api_key) ==
    [cls |-> cls, name |-> name, api_key |-> api_key,
     enabled |-> Truthy(api_key), client |-> None]

\* OpenAIProvider.__init__ ; importOk: "import openai" succeeded
OpenAIProviderInit(api_key, importOk) ==
    LET self == AIProviderInit("OpenAI", "OpenAI", api_key)
    IN  IF Truthy(api_key)
        THEN IF importOk
             THEN [self EXCEPT !.client = "openai"]
             ELSE [self EXCEPT !.enabled = FALSE]
        ELSE self

\* GeminiProvider.__init__ ; sdkOk: import, configure and GenerativeModel
\* all succeeded (the handle is kept in self.model)
GeminiProviderInit(api_key, sdkOk) ==
    LET self == AIProviderInit("Gemini", "Gemini", api_key)
    IN  IF Truthy(api_key)
        THEN IF sdkOk
             THEN [self EXCEPT !.client = "gemini-pro"]
             ELSE [self EXCEPT !.enabled = FALSE]
        ELSE self

\* OpenRouterProvider.__init__ (no client handle, only base_url)
OpenRouterProviderInit(api_key) ==
    AIProviderInit("OpenRouter", "OpenRouter", api_key)

\* MockProvider.__init__
MockProviderInit == AIProviderInit("Mock", "Mock", "mock_key")

\* cls(...) : the constructor call, which ABCMeta may refuse
New(cls, api_key, sdkOk) ==
    IF ~Instantiable(cls)
    THEN [status |-> "raise", exc |-> "TypeError"]
    ELSE [status |-> "return",
          obj |-> CASE cls = "OpenAI" -> OpenAIProviderInit(api_key, sdkOk)
                    [] cls = "Gemini" -> GeminiProviderInit(api_key, sdkOk)
                    [] cls = "OpenRouter" -> OpenRouterProviderInit(api_key)
                    [] cls = "Mock" -> MockProviderInit]

\* AIProvider.is_available (the body subclasses inherit)
BaseIsAvailable(self) == self.enabled

\* an is_available that looks at the credential alone
IsAvailableKeyOnly(self) == Truthy(self.api_key)

\* is_available as dispatched on the adapter's class
IsAvailable(self) ==
    CASE self.cls = "OpenAI" -> self.enabled /\ self.client # None
      [] self.cls = "Gemini" -> self.enabled /\ self.client # None
      [] OTHER -> BaseIsAvailable(self)

\* AIProvider.get_usage_info
GetUsageInfo(self) ==
    [name |-> self.name, enabled |-> self.enabled,
     has_api_key |-> Truthy(self.api_key)]

\* ------------------------------------------------------------- inputs

\* the character cap on file content in a file-analysis request
ContentCap == 4000

\* the marker appended to a capped excerpt, as one symbol
Truncated == <<[ch |-> "... [truncated]", n |-> 1]>>

RECURSIVE TextLen(_)
RECURSIVE TextTake(_, _)

\* a text is kept as its runs of equal characters: [ch, n] is n times ch
TextLen(text) ==
    IF text = <<>> THEN 0 ELSE Head(text).n + TextLen(Tail(text))

\* text[:k]
TextTake(text, k) ==
    IF k = 0 \/ text = <<>>
    THEN <<>>
    ELSE IF Head(text).n <= k
         THEN <<Head(text)>> \o TextTake(Tail(text), k - Head(text).n)
         ELSE <<[ch |-> Head(text).ch, n |-> k]>>

\* file content of n characters, the last one unlike those before it
Content(n) ==
    CASE n = 0 -> <<>>
      [] n = 1 -> <<[ch |-> "b", n |-> 1]>>
      [] n > 1 -> <<[ch |-> "a", n |-> n - 1], [ch |-> "b", n |-> 1]>>

\* file descriptors handed in by the repository walker
FileInfos ==
    {[name |-> "app.py", language |-> "python", content |-> Content(8)],
     [name |-> "app.py", language |-> "python",
      content |-> Content(ContentCap)],
     [name |-> "big.py", language |-> "python",
      content |-> Content(ContentCap + 1)],
     [name |-> "index.js", language |-> "javascript",
      content |-> Content(0)]}

\* repository descriptors; languages is a dict kept in insertion order
RepoDatas ==
    {[name |-> "demo", languages |-> <<[key |-> "python", value |-> 2],
                                       [key |-> "javascript", value |-> 1]>>,
      file_count |-> 3, size_mb |-> 1],
     [name |-> "empty", languages |-> <<>>, file_count |-> 0, size_mb |-> 0]}

\* the file_analyses argument of generate_repository_summary
FileAnalysesArgs == {<<>>, <<[file_name |-> "app.py"]>>}

\* the provider_name argument of the Manager's methods
ProviderNames == {None, "", "openai", "gemini", "openrouter", "claude"}

\* reply text of a backend, as tokens: the two braces and "w", a run of
\* text without braces such as "name": "main" (prose outside an object,
\* a well-formed member list directly inside one)
Tokens == {"{", "}", "w"}

Replies == UNION {[1..n -> Tokens] : n \in 0..MaxReply}

\* what happens to the outbound request: a reply with text arrives, the
\* SDK call / HTTP POST / raise_for_status / envelope access raises, or a
\* reply arrives whose message content is null
Transports == {"ok", "error", "null"}

\* ------------------------------------------------------ Python helpers

EmptyDict == [k \in {} |-> None]

\* list(d.keys()) of an insertion-ordered dict
Keys(d) == [i \in 1..Len(d) |-> d[i].key]

\* ------------------------------------------------------- mock results

\* the word each class puts into its mock output
MockLabel(cls) ==
    CASE cls = "OpenAI" -> "OpenAI"
      [] cls = "Gemini" -> "Gemini"
      [] cls = "OpenRouter" -> "OpenRouter"
      [] cls = "Mock" -> "Mock"

\* _mock_file_analysis of each class
MockFileAnalysis(cls, file_info) ==
    [file_name |-> file_info.name,
     description |->
        IF cls = "Mock"
        THEN <<"Mock analysis for ", file_info.language, " file">>
        ELSE <<MockLabel(cls), " analysis for ", file_info.language, " file">>,
     key_components |->
        IF cls = "Mock"
        THEN <<[name |-> "main", type |-> "function",
                description |-> "Main functionality"]>>
        ELSE <<[name |-> "main", type |-> "function",
                description |-> "Main functionality", line_number |-> 1]>>,
     purpose |-> "Core functionality",
     dependencies |-> <<"standard library">>,
     complexity |-> "medium"]

\* _mock_repository_summary of each class
MockRepositorySummary(cls, repo_data) ==
    [repository_name |-> repo_data.name,
     overview |->
        IF cls = "Mock"
        THEN <<"Mock repository analysis">>
        ELSE <<MockLabel(cls), "-powered repository analysis">>,
     architecture |-> [description |-> "Modular architecture"],
     key_features |-> <<[name |-> "Core", description |-> "Main features"]>>,
     tutorial_sections |-> <<[title |-> "Getting Started",
                              description |-> "Introduction",
                              difficulty |-> "beginner"]>>,
     learning_path |-> <<[step |-> 1, title |-> "Overview",
                          description |-> "Understand the project"]>>,
     technical_stack |-> Keys(repo_data.languages),
     complexity_level |-> "medium"]

\* _mock_architecture_diagram of each class
MockArchitectureDiagram(cls, repo_data) ==
    <<"graph TD\n    A[", repo_data.name, "] --> B[", MockLabel(cls),
      " Analysis]\n    B --> C[Files: ", repo_data.file_count,
      "]\n    B --> D[Languages: ", Keys(repo_data.languages), "]">>

\* ---------------------------------------------------------- normalizer

\* a search whose match runs from the first "{" to the end of the text
ReSearchToEnd(result) ==
    LET opens == {i \in 1..Len(result) : result[i] = "{"}
        closes == {i \in 1..Len(result) : result[i] = "}"}
    IN  IF opens = {} THEN [found |-> FALSE]
        ELSE LET first == CHOOSE i \in opens : \A j \in opens : i <= j
                 behind == {j \in closes : j > first}
             IN  IF behind = {} THEN [found |-> FALSE]
                 ELSE [found |-> TRUE,
                       group |-> SubSeq(result, first, Len(result))]

\* re.search(r"\{.*\}", result, re.DOTALL): greedy, from the first "{" to
\* the last "}" behind it; no match when there is no such pair
ReSearch(result) ==
    LET opens == {i \in 1..Len(result) : result[i] = "{"}
        closes == {i \in 1..Len(result) : result[i] = "}"}
    IN  IF opens = {} THEN [found |-> FALSE]
        ELSE LET first == CHOOSE i \in opens : \A j \in opens : i <= j
                 behind == {j \in closes : j > first}
             IN  IF behind = {} THEN [found |-> FALSE]
                 ELSE LET last == CHOOSE j \in behind :
                                      \A k \in behind : k <= j
                      IN  [found |-> TRUE,
                           group |-> SubSeq(result, first, last)]

\* json.loads of a candidate that starts with "{" and ends with "}": the
\* empty object, or an object around one member list, parses; anything
\* else (stray or unbalanced braces, two lists side by side) raises
\* JSONDecodeError
JsonLoads(text) ==
    IF text = <<"{", "}">>
    THEN [status |-> "return", value |-> EmptyDict]
    ELSE IF text = <<"{", "w", "}">>
    THEN [status |-> "return", value |-> [name |-> "main"]]
    ELSE [status |-> "raise", exc |-> "JSONDecodeError"]

\* a wrapped-text stub that leaves the complexity out
WrappedTextNoComplexity(file_info, result) ==
    [file_name |-> file_info.name,
     description |-> result,
     key_components |-> <<>>,
     purpose |-> "File analysis",
     dependencies |-> <<>>]

\* the wrapped-text stub of generate_file_analysis
WrappedText(file_info, result) ==
    [file_name |-> file_info.name,
     description |-> result,
     key_components |-> <<>>,
     purpose |-> "File analysis",
     dependencies |-> <<>>,
     complexity |-> "medium"]

\* a file-analysis normalizer that answers a parse failure with the mock
NormalizeFileAnalysisMockOnFailure(cls, file_info, result) ==
    LET json_match == ReSearch(result)
    IN  IF json_match.found
        THEN LET parsed == JsonLoads(json_match.group)
             IN  IF parsed.status = "return"
                 THEN [path |-> "parsed", value |-> parsed.value]
                 ELSE [path |-> "mock",
                       value |-> MockFileAnalysis(cls, file_info)]
        ELSE [path |-> "wrapped", value |-> WrappedText(file_info, result)]

\* lines 50-74 of generate_file_analysis: the reply text to a result
NormalizeFileAnalysis(cls, file_info, result) ==
    LET json_match == ReSearch(result)
    IN  IF json_match.found
        THEN LET parsed == JsonLoads(json_match.group)
             IN  IF parsed.status = "return"
                 THEN [path |-> "parsed", value |-> parsed.value]
                 ELSE [path |-> "wrapped",
                       value |-> WrappedText(file_info, result)]
        ELSE [path |-> "wrapped", value |-> WrappedText(file_info, result)]

\* a summary normalizer that wraps the reply text instead of falling back
\* to the mock
NormalizeRepositorySummaryWrapped(cls, repo_data, result) ==
    LET json_match == ReSearch(result)
        stub == [repository_name |-> repo_data.name, overview |-> result,
                 architecture |-> EmptyDict, key_features |-> <<>>,
                 tutorial_sections |-> <<>>, learning_path |-> <<>>,
                 technical_stack |-> <<>>, complexity_level |-> "medium"]
    IN  IF json_match.found
        THEN LET parsed == JsonLoads(json_match.group)
             IN  IF parsed.status = "return"
                 THEN [path |-> "parsed", value |-> parsed.value]
                 ELSE [path |-> "wrapped", value |-> stub]
        ELSE [path |-> "wrapped", value |-> stub]

\* lines 107-117 of generate_repository_summary: the reply text to a result
NormalizeRepositorySummary(cls, repo_data, result) ==
    LET json_match == ReSearch(result)
    IN  IF json_match.found
        THEN LET parsed == JsonLoads(json_match.group)
             IN  IF parsed.status = "return"
                 THEN [path |-> "parsed", value |-> parsed.value]
                 ELSE [path |-> "mock",
                       value |-> MockRepositorySummary(cls, repo_data)]
        ELSE [path |-> "mock",
              value |-> MockRepositorySummary(cls, repo_data)]

\* ------------------------------------------------------------ requests

\* a cap that already cuts content of exactly ContentCap characters
CapContentOffByOne(content) ==
    IF TextLen(content) >= ContentCap
    THEN TextTake(content, ContentCap) \o Truncated
    ELSE content

\* the content excerpt of a file-analysis request
CapContent(content) ==
    IF TextLen(content) > ContentCap
    THEN TextTake(content, ContentCap) \o Truncated
    ELSE content

\* the outbound request of generate_file_analysis
FileAnalysisRequest(self, file_info) ==
    [to |-> self.cls,
     credential |-> self.api_key,
     system |-> "file_analysis_prompt",
     user |-> <<"Analyze this ", file_info.language, " file: ",
                file_info.name, "\n\n">> \o CapContent(file_info.content),
     max_tokens |-> 1000]

\* a summary request that folds the per-file analyses into the prompt
RepositorySummaryRequestFolds(self, repo_data, file_analyses) ==
    [to |-> self.cls,
     credential |-> self.api_key,
     system |-> "repository_summary_prompt",
     user |-> <<"Generate summary for: ",
                [name |-> repo_data.name, languages |-> repo_data.languages,
                 file_count |-> repo_data.file_count,
                 size_mb |-> repo_data.size_mb,
                 file_analyses |-> file_analyses]>>,
     max_tokens |-> 2000]

\* the outbound request of generate_repository_summary
RepositorySummaryRequest(self, repo_data, file_analyses) ==
    [to |-> self.cls,
     credential |-> self.api_key,
     system |-> "repository_summary_prompt",
     user |-> <<"Generate summary for: ",
                [name |-> repo_data.name, languages |-> repo_data.languages,
                 file_count |-> repo_data.file_count,
                 size_mb |-> repo_data.size_mb]>>,
     max_tokens |-> 2000]

\* the outbound request of generate_architecture_diagram
ArchitectureDiagramRequest(self, repo_data) ==
    [to |-> self.cls,
     credential |-> self.api_key,
     system |-> "Generate a Mermaid diagram showing the high-level architecture of this repository.",
     user |-> <<"Repository: ", repo_data.name, ", Languages: ",
                repo_data.languages>>,
     max_tokens |-> 500]

\* ------------------------------------------------------------- Manager

\* the adapter class load_providers constructs for a registry name
ClassOf(backend) ==
    CASE backend = "openai" -> "OpenAI"
      [] backend = "gemini" -> "Gemini"
      [] backend = "openrouter" -> "OpenRouter"

\* load_providers with the gemini branch testing and passing the OpenAI key
RECURSIVE LoadFromCopiedKey(_, _, _, _)
LoadFromCopiedKey(cfg, sdk, i, providers) ==
    IF i > Len(Backends)
    THEN [status |-> "return", providers |-> providers]
    ELSE LET backend == Backends[i]
             api_key == IF backend = "gemini" THEN cfg["openai"]
                        ELSE cfg[backend]
         IN  IF ~Truthy(api_key)
             THEN LoadFromCopiedKey(cfg, sdk, i + 1, providers)
             ELSE LET made == New(ClassOf(backend), api_key,
                                  backend \in SdkBackends => sdk[backend])
                  IN  IF made.status = "raise"
                      THEN made
                      ELSE LoadFromCopiedKey(cfg, sdk, i + 1,
                                             Append(providers,
                                                    [key |-> backend,
                                                     adapter |-> made.obj]))

\* load_providers testing "is not None" where the code tests truthiness
RECURSIVE LoadFromIsNotNone(_, _, _, _)
LoadFromIsNotNone(cfg, sdk, i, providers) ==
    IF i > Len(Backends)
    THEN [status |-> "return", providers |-> providers]
    ELSE LET backend == Backends[i]
         IN  IF cfg[backend] = None
             THEN LoadFromIsNotNone(cfg, sdk, i + 1, providers)
             ELSE LET made == New(ClassOf(backend), cfg[backend],
                                  backend \in SdkBackends => sdk[backend])
                  IN  IF made.status = "raise"
                      THEN made
                      ELSE LoadFromIsNotNone(cfg, sdk, i + 1,
                                             Append(providers,
                                                    [key |-> backend,
                                                     adapter |-> made.obj]))

\* load_providers from its i-th "if" on: a backend whose setting is truthy
\* is constructed and stored under its name; a constructor that raises
\* ends load_providers with that exception
RECURSIVE LoadFrom(_, _, _, _)
LoadFrom(cfg, sdk, i, providers) ==
    IF i > Len(Backends)
    THEN [status |-> "return", providers |-> providers]
    ELSE LET backend == Backends[i]
         IN  IF ~Truthy(cfg[backend])
             THEN LoadFrom(cfg, sdk, i + 1, providers)
             ELSE LET made == New(ClassOf(backend), cfg[backend],
                                  backend \in SdkBackends => sdk[backend])
                  IN  IF made.status = "raise"
                      THEN made
                      ELSE LoadFrom(cfg, sdk, i + 1,
                                    Append(providers,
                                           [key |-> backend,
                                            adapter |-> made.obj]))

\* AIManager.load_providers: self.providers, an insertion-ordered dict
LoadProviders(cfg, sdk) == LoadFrom(cfg, sdk, 1, <<>>)

\* AIManager.__init__
NewAIManager(cfg, sdk) ==
    LET loaded == LoadProviders(cfg, sdk)
    IN  IF loaded.status = "raise"
        THEN loaded
        ELSE [status |-> "return",
              obj |-> [constructed |-> TRUE, providers |-> loaded.providers]]

\* positions of the dict entries whose adapter passes is_available()
AvailableAt(self) ==
    {i \in 1..Len(self.providers) : IsAvailable(self.providers[i].adapter)}

\* AIManager.get_available_providers
GetAvailableProviders(self) ==
    LET avail(e) == IsAvailable(e.adapter)
        kept == SelectSeq(self.providers, avail)
    IN  [i \in 1..Len(kept) |-> kept[i].key]

\* provider_name in self.providers
Registered(self, provider_name) ==
    \E i \in 1..Len(self.providers) : self.providers[i].key = provider_name

\* self.providers[provider_name]
Lookup(self, provider_name) ==
    LET i == CHOOSE j \in 1..Len(self.providers) :
                 self.providers[j].key = provider_name
    IN  self.providers[i]

\* AIManager._create_mock_provider
CreateMockProvider ==
    LET made == New("Mock", "mock_key", TRUE)
    IN  IF made.status = "raise"
        THEN made
        ELSE [status |-> "return", key |-> None, adapter |-> made.obj]

\* the fallback loop keeping the last available adapter, not the first
FirstAvailableLast(self) ==
    LET last == CHOOSE i \in AvailableAt(self) :
                    \A j \in AvailableAt(self) : j <= i
    IN  self.providers[last]

\* the "for name, provider in self.providers.items()" loop of get_provider
FirstAvailable(self) ==
    LET first == CHOOSE i \in AvailableAt(self) :
                     \A j \in AvailableAt(self) : i <= j
    IN  self.providers[first]

\* get_provider without its provider_name branch
GetProviderIgnoresName(self, provider_name) ==
    IF AvailableAt(self) # {}
    THEN [status |-> "return", key |-> FirstAvailable(self).key,
          adapter |-> FirstAvailable(self).adapter]
    ELSE CreateMockProvider

\* AIManager.get_provider
GetProvider(self, provider_name) ==
    IF /\ Truthy(provider_name)
       /\ Registered(self, provider_name)
       /\ IsAvailable(Lookup(self, provider_name).adapter)
    THEN [status |-> "return", key |-> provider_name,
          adapter |-> Lookup(self, provider_name).adapter]
    ELSE IF AvailableAt(self) # {}
    THEN [status |-> "return", key |-> FirstAvailable(self).key,
          adapter |-> FirstAvailable(self).adapter]
    ELSE CreateMockProvider

\* AIManager.get_provider_status
GetProviderStatus(self) ==
    [i \in 1..Len(self.providers) |->
        [key |-> self.providers[i].key,
         value |-> GetUsageInfo(self.providers[i].adapter)]]

\* ------------------------------------------------------- adapter calls

\* no AIManager has been constructed yet
NoManager == [constructed |-> FALSE, providers |-> <<>>]

\* no generate_* call is waiting for its backend
NoCall == [active |-> FALSE]

Ops == {"generate_file_analysis", "generate_repository_summary",
        "generate_architecture_diagram"}

\* the arguments of one generate_* call
ArgsOf(op) ==
    CASE op = "generate_file_analysis" ->
            {[file_info |-> f] : f \in FileInfos}
      [] op = "generate_repository_summary" ->
            {[repo_data |-> r, file_analyses |-> a] :
                r \in RepoDatas, a \in FileAnalysesArgs}
      [] op = "generate_architecture_diagram" ->
            {[repo_data |-> r] : r \in RepoDatas}

\* the arguments as the result record keeps them (file content left out)
Brief(op, args) ==
    IF op = "generate_file_analysis"
    THEN [name |-> args.file_info.name, language |-> args.file_info.language]
    ELSE args.repo_data

\* the mock result each generate_* method of a class falls back to
MockResult(cls, op, brief) ==
    CASE op = "generate_file_analysis" -> MockFileAnalysis(cls, brief)
      [] op = "generate_repository_summary" ->
            MockRepositorySummary(cls, brief)
      [] op = "generate_architecture_diagram" ->
            MockArchitectureDiagram(cls, brief)

\* the request a generate_* method builds inside its try block
RequestOf(self, op, args) ==
    CASE op = "generate_file_analysis" ->
            FileAnalysisRequest(self, args.file_info)
      [] op = "generate_repository_summary" ->
            RepositorySummaryRequest(self, args.repo_data, args.file_analyses)
      [] op = "generate_architecture_diagram" ->
            ArchitectureDiagramRequest(self, args.repo_data)

\* a generate_* method that goes on to its request whatever
\* is_available() says
BeginUnchecked(entry, key, self, op, args) ==
    IF self.cls = "Mock"
    THEN /\ call' = NoCall
         /\ ret' = [op |-> op, status |-> "return", key |-> key,
                    cls |-> self.cls, args |-> Brief(op, args),
                    path |-> "mock", transport |-> None, reply |-> <<>>,
                    requests |-> 0,
                    value |-> MockResult(self.cls, op, Brief(op, args))]
    ELSE /\ call' = [active |-> TRUE, op |-> op, entry |-> entry,
                     key |-> key, self |-> self, args |-> Brief(op, args),
                     input |-> args,
                     request |-> RequestOf(self, op, args)]
         /\ ret' = [op |-> op, status |-> "pending"]

\* a generate_* method up to its outbound request: the Mock class and an
\* unavailable adapter return their mock at once, an available adapter
\* blocks in the SDK call / HTTP POST
Begin(entry, key, self, op, args) ==
    IF self.cls = "Mock" \/ ~IsAvailable(self)
    THEN /\ call' = NoCall
         /\ ret' = [op |-> op, status |-> "return", key |-> key, cls |-> self.cls, args |-> Brief(op, args),
                    path |-> "mock", transport |-> None, reply |-> <<>>,
                    requests |-> 0,
                    value |-> MockResult(self.cls, op, Brief(op, args))]
    ELSE /\ call' = [active |-> TRUE, op |-> op, entry |-> entry, key |-> key, self |-> self,
                     args |-> Brief(op, args), input |-> args,
                     request |-> RequestOf(self, op, args)]
         /\ ret' = [op |-> op, status |-> "pending"]

\* an outcome that runs the file-analysis normalizer over diagram replies
\* as well
OutcomeNormalizesDiagram(c, transport, reply) ==
    IF transport = "error"
    THEN [path |-> "mock", value |-> MockResult(c.self.cls, c.op, c.args)]
    ELSE IF transport = "null"
    THEN CASE c.op = "generate_file_analysis" ->
                 [path |-> "wrapped", value |-> WrappedText(c.args, None)]
           [] c.op = "generate_repository_summary" ->
                 [path |-> "mock",
                  value |-> MockRepositorySummary(c.self.cls, c.args)]
           [] c.op = "generate_architecture_diagram" ->
                 [path |-> "text", value |-> None]
    ELSE CASE c.op = "generate_file_analysis" ->
                 NormalizeFileAnalysis(c.self.cls, c.args, reply)
           [] c.op = "generate_repository_summary" ->
                 NormalizeRepositorySummary(c.self.cls, c.args, reply)
           [] c.op = "generate_architecture_diagram" ->
                 IF ReSearch(reply).found
                 THEN [path |-> "text", value |-> ReSearch(reply).group]
                 ELSE [path |-> "text", value |-> reply]

\* what a generate_* method makes of the outcome of its request: an
\* exception inside the try block is answered with the mock; on null
\* content re.search raises TypeError, which the inner except of the two
\* normalizing methods catches; generate_architecture_diagram returns the
\* content as it is
Outcome(c, transport, reply) ==
    IF transport = "error"
    THEN [path |-> "mock", value |-> MockResult(c.self.cls, c.op, c.args)]
    ELSE IF transport = "null"
    THEN CASE c.op = "generate_file_analysis" ->
                 [path |-> "wrapped", value |-> WrappedText(c.args, None)]
           [] c.op = "generate_repository_summary" ->
                 [path |-> "mock",
                  value |-> MockRepositorySummary(c.self.cls, c.args)]
           [] c.op = "generate_architecture_diagram" ->
                 [path |-> "text", value |-> None]
    ELSE CASE c.op = "generate_file_analysis" ->
                 NormalizeFileAnalysis(c.self.cls, c.args, reply)
           [] c.op = "generate_repository_summary" ->
                 NormalizeRepositorySummary(c.self.cls, c.args, reply)
           [] c.op = "generate_architecture_diagram" ->
                 [path |-> "text", value |-> reply]

\* a generate_* method without the try/except around its request
FinishUncaught(c, transport, reply) ==
    IF transport = "error"
    THEN [op |-> c.op, status |-> "raise", entry |-> c.entry,
          exc |-> "TransportError", args |-> c.args, requests |-> 1]
    ELSE [op |-> c.op, status |-> "return", key |-> c.key,
          cls |-> c.self.cls, args |-> c.args,
          path |-> Outcome(c, transport, reply).path,
          transport |-> transport, reply |-> reply, requests |-> 1,
          value |-> Outcome(c, transport, reply).value]

\* a generate_* method that sends its request a second time after a failure
FinishRetries(c, transport, reply) ==
    [op |-> c.op, status |-> "return", key |-> c.key,
     cls |-> c.self.cls, args |-> c.args,
     path |-> Outcome(c, transport, reply).path,
     transport |-> transport, reply |-> reply,
     requests |-> IF transport = "error" THEN 2 ELSE 1,
     value |-> Outcome(c, transport, reply).value]

\* a generate_* method from the outcome of its request to its return
Finish(c, transport, reply) ==
    [op |-> c.op, status |-> "return", key |-> c.key,
     cls |-> c.self.cls, args |-> c.args,
     path |-> Outcome(c, transport, reply).path,
     transport |-> transport, reply |-> reply, requests |-> 1,
     value |-> Outcome(c, transport, reply).value]

\* ------------------------------------------------------------- actions

\* processing_status = {} with no analysis started, at process start
NoTasks ==
    /\ processing_status = [t \in {} |-> None]
    /\ threads = [t \in {} |-> None]
    /\ now = 0

Init ==
    /\ NoTasks
    /\ environ \in [BackendSet -> KeyValues]
    /\ config = environ
    /\ manager = NoManager
    /\ call = NoCall
    /\ ret = [op |-> "start", status |-> "return"]

\* AIManager(): the three SDK constructions succeed or fail as the
\* installed libraries and the key decide
Construct ==
    /\ ~call.active
    /\ \E sdk \in [SdkBackends -> BOOLEAN] :
          LET made == NewAIManager(config, sdk)
          IN  /\ manager' = IF made.status = "return" THEN made.obj
                            ELSE manager
              /\ ret' = [op |-> "AIManager", status |-> made.status,
                         sdk |-> sdk]
    /\ UNCHANGED <<taskvars, environ, config, call>>

\* an adapter constructed directly, then asked is_available() and
\* get_usage_info()
ConstructAdapter ==
    /\ ~call.active
    /\ \E backend \in BackendSet, api_key \in KeyValues, sdkOk \in BOOLEAN :
          LET made == New(ClassOf(backend), api_key, sdkOk)
          IN  ret' = IF made.status = "raise"
                     THEN [op |-> "adapter", status |-> "raise",
                           cls |-> ClassOf(backend), api_key |-> api_key,
                           sdkOk |-> sdkOk]
                     ELSE [op |-> "adapter", status |-> "return",
                           cls |-> ClassOf(backend), api_key |-> api_key,
                           sdkOk |-> sdkOk,
                           is_available |-> IsAvailable(made.obj),
                           usage_info |-> GetUsageInfo(made.obj)]
    /\ UNCHANGED <<taskvars, environ, config, manager, call>>

\* manager.get_available_providers()
CallGetAvailableProviders ==
    /\ ~call.active
    /\ manager.constructed
    /\ ret' = [op |-> "get_available_providers", status |-> "return",
               value |-> GetAvailableProviders(manager)]
    /\ UNCHANGED <<taskvars, environ, config, manager, call>>

\* manager.get_provider(provider_name)
CallGetProvider ==
    /\ ~call.active
    /\ manager.constructed
    /\ \E provider_name \in ProviderNames :
          LET got == GetProvider(manager, provider_name)
          IN  ret' = IF got.status = "raise"
                     THEN [op |-> "get_provider", status |-> "raise",
                           provider_name |-> provider_name]
                     ELSE [op |-> "get_provider", status |-> "return",
                           provider_name |-> provider_name,
                           key |-> got.key, cls |-> got.adapter.cls,
                           value |-> got.adapter]
    /\ UNCHANGED <<taskvars, environ, config, manager, call>>

\* manager.get_provider_status()
CallGetProviderStatus ==
    /\ ~call.active
    /\ manager.constructed
    /\ ret' = [op |-> "get_provider_status", status |-> "return",
               value |-> GetProviderStatus(manager)]
    /\ UNCHANGED <<taskvars, environ, config, manager, call>>

\* manager.generate_file_analysis / generate_repository_summary /
\* generate_architecture_diagram: resolve a provider, then delegate
ManagerGenerate ==
    /\ ~call.active
    /\ manager.constructed
    /\ \E op \in Ops, provider_name \in ProviderNames :
       \E args \in ArgsOf(op) :
          LET got == GetProvider(manager, provider_name)
          IN  IF got.status = "raise"
              THEN /\ call' = NoCall
                   /\ ret' = [op |-> op, status |-> "raise",
                              entry |-> "manager", exc |-> got.exc,
                              args |-> Brief(op, args), requests |-> 0]
              ELSE Begin("manager", got.key, got.adapter, op, args)
    /\ UNCHANGED <<taskvars, environ, config, manager>>

\* a generate_* method called on a registered adapter itself
AdapterGenerate ==
    /\ ~call.active
    /\ manager.constructed
    /\ \E i \in 1..Len(manager.providers), op \in Ops :
       \E args \in ArgsOf(op) :
          Begin("adapter", manager.providers[i].key,
                manager.providers[i].adapter, op, args)
    /\ UNCHANGED <<taskvars, environ, config, manager>>

\* the outbound request of the call in flight ends, with a reply or an
\* exception, and the generate_* method runs to its return (Gemini's
\* response.text is a string or raises, never null)
Respond ==
    /\ call.active
    /\ \E transport \in Transports, reply \in Replies :
          /\ transport # "ok" => reply = <<>>
          /\ transport = "null" => call.self.cls # "Gemini"
          /\ ret' = Finish(call, transport, reply)
    /\ call' = NoCall
    /\ UNCHANGED <<taskvars, environ, config, manager>>

Next ==
    \/ Construct
    \/ ConstructAdapter
    \/ CallGetAvailableProviders
    \/ CallGetProvider
    \/ CallGetProviderStatus
    \/ ManagerGenerate
    \/ AdapterGenerate
    \/ Respond

Spec == Init /\ [][Next]_vars

\* ------------------------------------------------------ admin dashboard

\* what the dashboard form holds for one provider's key field: None when
\* the field is absent, else the text typed in
FormValues == {None, "", " sk-key "}

\* key.strip()
Strip(key) == IF key = " sk-key " THEN "sk-key" ELSE key

\* os.environ after the POST branch of dashboard()
PostEnviron(env, form) ==
    [b \in BackendSet |->
        IF form[b] = None THEN env[b] ELSE Strip(form[b])]

\* the form of a GET request: no field
NoForm == [b \in BackendSet |-> None]

\* a dashboard that puts the Manager it builds in place of the existing
\* one, and builds it from the environment as it is now
DashboardRebindsManager ==
    /\ ~call.active
    /\ \E method \in {"GET", "POST"}, form \in [BackendSet -> FormValues],
          sdk \in [SdkBackends -> BOOLEAN] :
          /\ method = "GET" => form = NoForm
          /\ environ' = IF method = "POST"
                        THEN PostEnviron(environ, form) ELSE environ
          /\ LET ai_manager == NewAIManager(environ', sdk)
             IN  /\ manager' = IF ai_manager.status = "raise"
                               THEN manager ELSE ai_manager.obj
                 /\ ret' = IF ai_manager.status = "raise"
                           THEN [op |-> "dashboard", method |-> method,
                                 status |-> "raise", exc |-> ai_manager.exc]
                           ELSE [op |-> "dashboard", method |-> method,
                                 status |-> "return",
                                 providers |->
                                    GetProviderStatus(ai_manager.obj)]
    /\ UNCHANGED <<taskvars, config, call>>

\* admin.dashboard(), the session being authenticated: a POST writes each
\* key field of the form into os.environ; then a Manager of its own is
\* built (from Config, as AIManager.__init__ does) and its status rendered
Dashboard ==
    /\ ~call.active
    /\ \E method \in {"GET", "POST"}, form \in [BackendSet -> FormValues],
          sdk \in [SdkBackends -> BOOLEAN] :
          /\ method = "GET" => form = NoForm
          /\ environ' = IF method = "POST"
                        THEN PostEnviron(environ, form) ELSE environ
          /\ LET ai_manager == NewAIManager(config, sdk)
             IN  ret' = IF ai_manager.status = "raise"
                        THEN [op |-> "dashboard", method |-> method,
                              status |-> "raise", exc |-> ai_manager.exc]
                        ELSE [op |-> "dashboard", method |-> method,
                              status |-> "return",
                              providers |->
                                 GetProviderStatus(ai_manager.obj)]
    /\ UNCHANGED <<taskvars, config, manager, call>>

\* the process with its admin dashboard in use: Managers are constructed
\* and queried while dashboard requests rewrite the environment
NextAdmin ==
    \/ Construct
    \/ CallGetAvailableProviders
    \/ CallGetProvider
    \/ CallGetProviderStatus
    \/ Dashboard

SpecAdmin == Init /\ [][NextAdmin]_vars

\* ---------------------------------------------------- concurrent workers

\* the worker units of execution that share one Manager; under SpecWorkers
\* call and ret hold one record for each of them
Workers == {"job1", "job2"}

\* the provider_name a worker passes: none, or a preference
WorkerNames == {None, "gemini"}

\* the reply texts the backends send the workers
WorkerReplies == {<<>>, <<"w">>, <<"{", "}">>}

\* a worker calls manager.generate_*: the provider is resolved and the
\* method runs up to its blocking request (or to its return, when it
\* sends none)
WorkerGenerate(w) ==
    /\ ~call[w].active
    /\ \E op \in Ops, provider_name \in WorkerNames :
       \E args \in ArgsOf(op) :
          LET got == GetProvider(manager, provider_name)
              self == got.adapter
          IN  IF got.status = "raise"
              THEN /\ call' = call
                   /\ ret' = [ret EXCEPT ![w] =
                              [op |-> op, status |-> "raise",
                               entry |-> "manager", exc |-> got.exc,
                               args |-> Brief(op, args), requests |-> 0]]
              ELSE IF self.cls = "Mock" \/ ~IsAvailable(self)
              THEN /\ call' = call
                   /\ ret' = [ret EXCEPT ![w] =
                              [op |-> op, status |-> "return",
                               key |-> got.key, cls |-> self.cls,
                               args |-> Brief(op, args), path |-> "mock",
                               transport |-> None, reply |-> <<>>,
                               requests |-> 0,
                               value |-> MockResult(self.cls, op,
                                                    Brief(op, args))]]
              ELSE /\ call' = [call EXCEPT ![w] =
                               [active |-> TRUE, op |-> op,
                                entry |-> "manager", key |-> got.key,
                                self |-> self, args |-> Brief(op, args),
                                input |-> args,
                                request |-> RequestOf(self, op, args)]]
                   /\ ret' = [ret EXCEPT ![w] =
                              [op |-> op, status |-> "pending"]]
    /\ UNCHANGED <<taskvars, environ, config, manager>>

\* a worker asks a registered adapter is_available() and get_usage_info()
WorkerAsk(w) ==
    /\ ~call[w].active
    /\ \E i \in 1..Len(manager.providers) :
          ret' = [ret EXCEPT ![w] =
                     [op |-> "is_available", status |-> "return",
                      key |-> manager.providers[i].key,
                      value |-> IsAvailable(manager.providers[i].adapter),
                      usage_info |->
                         GetUsageInfo(manager.providers[i].adapter)]]
    /\ UNCHANGED <<taskvars, environ, config, manager, call>>

\* a response step after which a failed request leaves the adapter
\* disabled
WorkerRespondDisables(w) ==
    /\ call[w].active
    /\ \E transport \in Transports, reply \in WorkerReplies :
          /\ transport # "ok" => reply = <<>>
          /\ transport = "null" => call[w].self.cls # "Gemini"
          /\ ret' = [ret EXCEPT ![w] = Finish(call[w], transport, reply)]
          /\ manager' =
                IF transport = "error"
                THEN [manager EXCEPT !.providers =
                        [i \in 1..Len(manager.providers) |->
                            IF manager.providers[i].key = call[w].key
                            THEN [manager.providers[i]
                                     EXCEPT !.adapter.enabled = FALSE]
                            ELSE manager.providers[i]]]
                ELSE manager
    /\ call' = [call EXCEPT ![w] = NoCall]
    /\ UNCHANGED <<taskvars, environ, config>>

\* the request of a worker's call in flight ends and its generate_* method
\* runs to its return
WorkerRespond(w) ==
    /\ call[w].active
    /\ \E transport \in Transports, reply \in WorkerReplies :
          /\ transport # "ok" => reply = <<>>
          /\ transport = "null" => call[w].self.cls # "Gemini"
          /\ ret' = [ret EXCEPT ![w] = Finish(call[w], transport, reply)]
    /\ call' = [call EXCEPT ![w] = NoCall]
    /\ UNCHANGED <<taskvars, environ, config, manager>>

\* a Manager has been constructed from the SDK credentials configured and
\* the workers are about to use it
InitWorkers ==
    /\ NoTasks
    /\ environ \in [BackendSet -> {None, "sk-key"}]
    /\ environ["openrouter"] = None
    /\ config = environ
    /\ \E sdk \in [SdkBackends -> BOOLEAN] :
          manager = NewAIManager(config, sdk).obj
    /\ call = [w \in Workers |-> NoCall]
    /\ ret = [w \in Workers |-> [op |-> "start", status |-> "return"]]

NextWorkers ==
    \E w \in Workers :
        \/ WorkerGenerate(w)
        \/ WorkerAsk(w)
        \/ WorkerRespond(w)

SpecWorkers == InitWorkers /\ [][NextWorkers]_vars

\* ------------------------------------------------------ adapters alone

\* a generate_* method called on an adapter constructed for the call; the
\* result names the adapter by the arguments of its construction
DirectGenerate ==
    /\ ~call.active
    /\ \E backend \in BackendSet, api_key \in KeyValues, sdkOk \in BOOLEAN,
          op \in Ops :
       \E args \in ArgsOf(op) :
          LET made == New(ClassOf(backend), api_key, sdkOk)
              key == [backend |-> backend, api_key |-> api_key,
                      sdkOk |-> sdkOk]
          IN  IF made.status = "raise"
              THEN /\ call' = NoCall
                   /\ ret' = [op |-> op, status |-> "raise",
                              entry |-> "adapter", exc |-> made.exc,
                              args |-> Brief(op, args), requests |-> 0]
              ELSE Begin("adapter", key, made.obj, op, args)
    /\ UNCHANGED <<taskvars, environ, config, manager>>

\* no credential is configured and no Manager is in use
InitDirect ==
    /\ NoTasks
    /\ environ = [b \in BackendSet |-> None]
    /\ config = environ
    /\ manager = NoManager
    /\ call = NoCall
    /\ ret = [op |-> "start", status |-> "return"]

NextDirect ==
    \/ DirectGenerate
    \/ Respond

SpecDirect == InitDirect /\ [][NextDirect]_vars

\* ------------------------------------------------- wrapped-text stubs

\* the prefix of the reply LLMService keeps as description
PrefixLen == 500

\* the "..." put behind the prefix
Ellipsis == <<[ch |-> ".", n |-> 3]>>

\* prose replies by their length in characters: no brace in them, not JSON
ProseLengths == (0..4) \cup ((PrefixLen - 4)..(PrefixLen + 4)) \cup {1000}

\* the services that answer a file-analysis call
StubServices == {"OpenAI", "Gemini", "LLMService"}

\* an LLMService stub that keeps the whole reply as description
LLMServiceStubWhole(file_info, response) ==
    [file_name |-> file_info.name,
     description |-> response,
     key_components |-> <<>>,
     purpose |-> "Analysis parsing failed",
     dependencies |-> <<>>,
     notes |-> response]

\* the stub LLMService.generate_file_analysis returns when json.loads
\* raises JSONDecodeError
LLMServiceStub(file_info, response) ==
    [file_name |-> file_info.name,
     description |-> IF TextLen(response) > PrefixLen
                     THEN TextTake(response, PrefixLen) \o Ellipsis
                     ELSE response,
     key_components |-> <<>>,
     purpose |-> "Analysis parsing failed",
     dependencies |-> <<>>,
     notes |-> response]

\* a file-analysis call whose reply is prose: the adapters find no brace
\* block in it, LLMService cannot parse it, and each returns its stub
StubCall ==
    /\ ~call.active
    /\ \E service \in StubServices, f \in FileInfos, n \in ProseLengths :
          LET response == Content(n)
              file_info == Brief("generate_file_analysis", [file_info |-> f])
          IN  ret' = [op |-> "generate_file_analysis", status |-> "return",
                      service |-> service, args |-> file_info,
                      path |-> "wrapped", reply |-> response,
                      value |-> IF service = "LLMService"
                                THEN LLMServiceStub(file_info, response)
                                ELSE WrappedText(file_info, response)]
    /\ UNCHANGED <<taskvars, environ, config, manager, call>>

SpecStub == InitDirect /\ [][StubCall]_vars

\* --------------------------------------------------------- task store

\* the task ids uuid4 hands out, each once
TaskIds == {"t1", "t2"}

\* the task ids a request can name: those, and one never handed out
AskedIds == TaskIds \cup {"t0"}

\* the clock counts hours; the last hour looked at
MaxTime == 3

\* timedelta(hours=1) of get_status and timedelta(hours=2) of
\* cleanup_background
StatusTtl == 1
CleanupTtl == 2

\* the github_url values posted to /analyze: none, malformed, valid
Urls == {"", "not-a-url", "https://github.com/o/r"}

\* the <format> values asked of /export
Formats == {"markdown", "pdf", "docx"}

\* dict with key k set to v
Put(d, k, v) ==
    [t \in DOMAIN d \cup {k} |-> IF t = k THEN v ELSE d[t]]

\* dict without the keys in gone
Without(d, gone) == [t \in DOMAIN d \ gone |-> d[t]]

\* the entry analyze_repository stores for a new task
NewTask ==
    [status |-> "started", progress |-> 0, created_at |-> now,
     result |-> None, error |-> None]

\* a POST /analyze that stores its task under an id handed out before
AnalyzeReusesId ==
    /\ \E github_url \in Urls :
          IF github_url # "https://github.com/o/r"
          THEN /\ ret' = [op |-> "analyze", task_id |-> None, code |-> 400]
               /\ UNCHANGED <<processing_status, threads>>
          ELSE \E task_id \in TaskIds :
                  /\ processing_status' =
                        Put(processing_status, task_id, NewTask)
                  /\ threads' = Put(threads, task_id, "start")
                  /\ ret' = [op |-> "analyze", task_id |-> task_id,
                             code |-> 200]
    /\ UNCHANGED <<environ, config, manager, call, now>>

\* POST /analyze: a missing or malformed URL is answered 400; otherwise
\* a task is stored under a fresh id and its background thread started
Analyze ==
    /\ \E github_url \in Urls :
          IF github_url # "https://github.com/o/r"
          THEN /\ ret' = [op |-> "analyze", task_id |-> None, code |-> 400]
               /\ UNCHANGED <<processing_status, threads>>
          ELSE \E task_id \in TaskIds \ DOMAIN threads :
                  /\ processing_status' =
                        Put(processing_status, task_id, NewTask)
                  /\ threads' = Put(threads, task_id, "start")
                  /\ ret' = [op |-> "analyze", task_id |-> task_id,
                             code |-> 200]
    /\ UNCHANGED <<environ, config, manager, call, now>>

\* processing_status[task_id].update(fields) in the thread of task_id:
\* KeyError when the entry is gone, and then the thread has ended: the
\* except branch of process_repository_background makes the same lookup
\* and its KeyError ends the thread
Update(task_id, fields, pc) ==
    IF task_id \in DOMAIN processing_status
    THEN /\ processing_status' =
               [processing_status EXCEPT ![task_id] =
                   [k \in DOMAIN @ |->
                       IF k \in DOMAIN fields THEN fields[k] ELSE @[k]]]
         /\ threads' = [threads EXCEPT ![task_id] = pc]
    ELSE /\ threads' = [threads EXCEPT ![task_id] = "dead"]
         /\ UNCHANGED processing_status

\* the fields of each status update of process_repository_background
Cloning == [status |-> "cloning", progress |-> 10]
Analyzing == [status |-> "analyzing", progress |-> 30]
Generating == [status |-> "generating", progress |-> 60]
CompletedNoResult == [status |-> "completed", progress |-> 100]
Completed ==
    [status |-> "completed", progress |-> 100, result |-> "tutorial"]
Failed == [status |-> "failed", progress |-> 0, error |-> "str(e)"]

\* one step of process_repository_background in the thread of task_id,
\* up to its next status update; ok: the blocking call before that
\* update (analyze_repository, generate_tutorial) returned, else it raised
Worker ==
    /\ \E task_id \in DOMAIN threads, ok \in BOOLEAN :
          /\ CASE threads[task_id] = "start" ->
                     ok /\ Update(task_id, Cloning, "cloning")
                [] threads[task_id] = "cloning" ->
                     IF ok THEN Update(task_id, Analyzing, "analyzing")
                     ELSE Update(task_id, Failed, "done")
                [] threads[task_id] = "analyzing" ->
                     ok /\ Update(task_id, Generating, "generating")
                [] threads[task_id] = "generating" ->
                     IF ok THEN Update(task_id, Completed, "done")
                     ELSE Update(task_id, Failed, "done")
                [] OTHER -> FALSE
          /\ ret' = [op |-> "worker", task_id |-> task_id,
                     code |-> threads'[task_id]]
    /\ UNCHANGED <<environ, config, manager, call, now>>

\* GET /status/<task_id>
GetStatusAnyStatus ==
    /\ \E task_id \in AskedIds :
          IF task_id \notin DOMAIN processing_status
          THEN /\ ret' = [op |-> "status", task_id |-> task_id,
                          code |-> 404]
               /\ UNCHANGED processing_status
          ELSE LET status == processing_status[task_id]
               IN  IF now - status.created_at > StatusTtl
                   THEN /\ processing_status' =
                              Without(processing_status, {task_id})
                        /\ ret' = [op |-> "status", task_id |-> task_id,
                                   code |-> 404]
                   ELSE /\ ret' = [op |-> "status", task_id |-> task_id,
                                   code |-> 200, body |-> status]
                        /\ UNCHANGED processing_status
    /\ UNCHANGED <<environ, config, manager, call, threads, now>>

GetStatus ==
    /\ \E task_id \in AskedIds :
          IF task_id \notin DOMAIN processing_status
          THEN /\ ret' = [op |-> "status", task_id |-> task_id,
                          code |-> 404]
               /\ UNCHANGED processing_status
          ELSE LET status == processing_status[task_id]
               IN  IF /\ status.status \in {"completed", "failed"}
                      /\ now - status.created_at > StatusTtl
                   THEN /\ processing_status' =
                              Without(processing_status, {task_id})
                        /\ ret' = [op |-> "status", task_id |-> task_id,
                                   code |-> 404]
                   ELSE /\ ret' = [op |-> "status", task_id |-> task_id,
                                   code |-> 200, body |-> status]
                        /\ UNCHANGED processing_status
    /\ UNCHANGED <<environ, config, manager, call, threads, now>>

ViewResultsAnyStatus ==
    /\ \E task_id \in AskedIds :
          ret' = IF task_id \notin DOMAIN processing_status
                 THEN [op |-> "results", task_id |-> task_id, code |-> 404]
                 ELSE [op |-> "results", task_id |-> task_id, code |-> 200,
                       tutorial |-> processing_status[task_id].result]
    /\ UNCHANGED <<environ, config, manager, call, taskvars>>

\* GET /results/<task_id>
ViewResults ==
    /\ \E task_id \in AskedIds :
          ret' = IF task_id \notin DOMAIN processing_status
                 THEN [op |-> "results", task_id |-> task_id, code |-> 404]
                 ELSE IF processing_status[task_id].status # "completed"
                 THEN [op |-> "results", task_id |-> task_id, code |-> 400]
                 ELSE [op |-> "results", task_id |-> task_id, code |-> 200,
                       tutorial |-> processing_status[task_id].result]
    /\ UNCHANGED <<environ, config, manager, call, taskvars>>

\* GET /export/<task_id>/<format>; ok: the export function returned,
\* else it raised
ExportTutorial ==
    /\ \E task_id \in AskedIds, format \in Formats, ok \in BOOLEAN :
          ret' = IF task_id \notin DOMAIN processing_status
                 THEN [op |-> "export", task_id |-> task_id, code |-> 404]
                 ELSE IF processing_status[task_id].status # "completed"
                 THEN [op |-> "export", task_id |-> task_id, code |-> 400]
                 ELSE IF format \notin {"markdown", "pdf"}
                 THEN [op |-> "export", task_id |-> task_id, code |-> 400]
                 ELSE IF ~ok
                 THEN [op |-> "export", task_id |-> task_id, code |-> 500]
                 ELSE [op |-> "export", task_id |-> task_id, code |-> 200,
                       tutorial |-> processing_status[task_id].result]
    /\ UNCHANGED <<environ, config, manager, call, taskvars>>

\* one round of cleanup_background: every task created more than two
\* hours ago is deleted
Cleanup ==
    /\ LET expired_tasks ==
               {task_id \in DOMAIN processing_status :
                   now - processing_status[task_id].created_at > CleanupTtl}
       IN  processing_status' = Without(processing_status, expired_tasks)
    /\ ret' = [op |-> "cleanup", task_id |-> None, code |-> None]
    /\ UNCHANGED <<environ, config, manager, call, threads, now>>

\* an hour passes
Tick ==
    /\ now < MaxTime
    /\ now' = now + 1
    /\ ret' = [op |-> "tick", task_id |-> None, code |-> None]
    /\ UNCHANGED <<environ, config, manager, call, processing_status,
                   threads>>

NextApp ==
    \/ Analyze
    \/ Worker
    \/ GetStatus
    \/ ViewResults
    \/ ExportTutorial
    \/ Cleanup
    \/ Tick

SpecApp == InitDirect /\ [][NextApp]_vars

\* ------------------------------------------------------------ vocabulary

\* the keys of the file-analysis dict every class writes
AnalysisFields ==
    {"file_name", "description", "key_components", "purpose",
     "dependencies", "complexity"}

\* the keys of the repository-summary dict every class writes
SummaryFields ==
    {"repository_name", "overview", "architecture", "key_features",
     "tutorial_sections", "learning_path", "technical_stack",
     "complexity_level"}

\* the Manager holds an adapter under this name and it passes is_available()
Usable(backend) ==
    /\ Registered(manager, backend)
    /\ IsAvailable(Lookup(manager, backend).adapter)

\* no backend has a credential configured
NoCredentials == \A b \in BackendSet : ~Truthy(config[b])

\* a piece of an f-string result
Contains(text, piece) == \E i \in 1..Len(text) : text[i] = piece

\* -------------------------------------------------------------- claims

\* C1: get_provider never raises and never returns null, for every state of
\* the Manager and every preferred_name; with no available adapter it
\* returns the Mock adapter.
C1_GetProviderTotal ==
    ret.op = "get_provider" =>
        /\ ret.status = "return"
        /\ (\A b \in BackendSet : ~Usable(b)) => ret.value.cls = "Mock"

\* C2: the three orchestration entry points of the Manager never raise for
\* provider-related reasons: each call returns a real or a mock result.
C2_EntryPointsNeverRaise ==
    ret.op \in Ops => ret.status # "raise"

\* C3: get_provider(name) with the name of a registered, available adapter
\* returns that exact adapter, whatever else is registered.
C3_PreferredReturned ==
    (/\ ret.op = "get_provider"
     /\ ret.provider_name \in BackendSet
     /\ Usable(ret.provider_name)) =>
        /\ ret.status = "return"
        /\ ret.key = ret.provider_name
        /\ ret.value = Lookup(manager, ret.provider_name).adapter

C3_Witness ==
    /\ ret.op = "get_provider"
    /\ ret.status = "return"
    /\ ret.provider_name = "gemini"
    /\ Usable("openai")
    /\ Usable("gemini")
    /\ ret.value.cls = "Gemini"

\* C4: get_provider with no name, an unknown name or the name of an
\* unavailable adapter returns the first available adapter in the order
\* openai, gemini, openrouter, not an error.
C4_FirstAvailableFallback ==
    (/\ ret.op = "get_provider"
     /\ ~(ret.provider_name \in BackendSet /\ Usable(ret.provider_name))
     /\ \E b \in BackendSet : Usable(b)) =>
        /\ ret.status = "return"
        /\ ret.key = IF Usable("openai") THEN "openai"
                     ELSE IF Usable("gemini") THEN "gemini"
                     ELSE "openrouter"
        /\ ret.value = Lookup(manager, ret.key).adapter

C4_Witness ==
    /\ ret.op = "get_provider"
    /\ ret.status = "return"
    /\ ret.provider_name = "gemini"
    /\ Registered(manager, "gemini")
    /\ ~Usable("gemini")
    /\ Usable("openai")
    /\ ret.key = "openai"

\* C5: a backend with no credential configured (unset or empty) is never
\* available: not passing is_available(), not listed by
\* get_available_providers(), never the adapter get_provider() returns or
\* an entry point runs on.
C5_NoCredentialNeverAvailable ==
    /\ manager.constructed =>
          \A b \in BackendSet :
             ~Truthy(config[b]) =>
                /\ ~Usable(b)
                /\ ~Contains(GetAvailableProviders(manager), b)
                /\ (ret.op \in Ops \cup {"get_provider"}
                      /\ ret.status = "return") =>
                        (ret.key # b /\ ret.cls # ClassOf(b))
    /\ (ret.op = "adapter" /\ ret.status = "return"
          /\ ~Truthy(ret.api_key)) => ~ret.is_available

C5_Witness ==
    /\ manager.constructed
    /\ ~Truthy(config["gemini"])
    /\ Usable("openai")
    /\ ret.op = "get_provider"
    /\ ret.provider_name = "gemini"
    /\ ret.status = "return"
    /\ ret.key = "openai"

\* C6: for each real adapter is_available() is true iff its credential is
\* present and, for OpenAI and Gemini, the client handle was constructed
\* without error; for OpenRouter iff the credential is present.
C6_AvailabilityIff ==
    ret.op = "adapter" =>
        /\ ret.status = "return"
        /\ ret.is_available <=>
              (/\ Truthy(ret.api_key)
               /\ ret.cls \in {"OpenAI", "Gemini"} => ret.sdkOk)

\* C7: a transport or backend error during generate_file_analysis or
\* generate_repository_summary on an available adapter ends in that
\* adapter's schema-complete mock result, and no exception leaves the call
\* once its request has been issued.
C7_TransportErrorYieldsMock ==
    ret.op \in {"generate_file_analysis", "generate_repository_summary"} =>
        /\ (ret.status = "return" /\ ret.transport = "error") =>
              /\ ret.path = "mock"
              /\ ret.value = MockResult(ret.cls, ret.op, ret.args)
              /\ DOMAIN ret.value =
                    IF ret.op = "generate_file_analysis"
                    THEN AnalysisFields ELSE SummaryFields
              /\ ret.op = "generate_file_analysis" =>
                    ret.value.file_name = ret.args.name
              /\ ret.op = "generate_repository_summary" =>
                    ret.value.repository_name = ret.args.name
        /\ ret.status = "raise" => ret.requests = 0

C7_Witness ==
    /\ ret.op = "generate_repository_summary"
    /\ ret.status = "return"
    /\ ret.transport = "error"
    /\ ret.cls = "Gemini"
    /\ ret.requests = 1
    /\ ret.value.repository_name = "demo"

\* exactly this backend has a credential configured
OnlyCredential(b) ==
    \A c \in BackendSet : Truthy(config[c]) <=> c = b

\* C8: with only one backend's credential configured and its client
\* healthy, constructing the Manager succeeds, get_available_providers()
\* is the one-element list of that backend's name and get_provider()
\* returns that backend's adapter.
C8_SingleBackendScenario ==
    \A b \in BackendSet :
       (/\ ret.op = "AIManager"
        /\ OnlyCredential(b)
        /\ b \in SdkBackends => ret.sdk[b]) =>
           /\ ret.status = "return"
           /\ GetAvailableProviders(manager) = <<b>>
           /\ GetProvider(manager, None).status = "return"
           /\ GetProvider(manager, None).key = b
           /\ GetProvider(manager, None).adapter.cls = ClassOf(b)

\* C9: with no credentials configured, Manager.generate_file_analysis
\* returns Mock-shaped output: file_name the input name, a description
\* containing the language tag, complexity "medium", every field present.
C9_NoCredentialsMockAnalysis ==
    (/\ NoCredentials
     /\ ret.op = "generate_file_analysis") =>
        /\ ret.status = "return"
        /\ DOMAIN ret.value = AnalysisFields
        /\ ret.value.file_name = ret.args.name
        /\ Contains(ret.value.description, ret.args.language)
        /\ ret.value.complexity = "medium"

\* C10 as stated: with no credentials configured, get_provider_status()
\* reports each of openai, gemini and openrouter with enabled = false.
C10_AllReportedDisabled ==
    (/\ NoCredentials
     /\ ret.op = "get_provider_status") =>
        \A b \in BackendSet :
           \E i \in 1..Len(ret.value) :
              /\ ret.value[i].key = b
              /\ ret.value[i].value.enabled = FALSE

\* C10 as amended: with no credentials configured, get_provider_status()
\* is the empty mapping: it has no entry for any real adapter, so it
\* reports none of them as enabled.
C10_EmptyStatus ==
    (/\ NoCredentials
     /\ ret.op = "get_provider_status") =>
        /\ ret.status = "return"
        /\ ret.value = <<>>

C10_Witness ==
    /\ NoCredentials
    /\ config["openai"] = ""
    /\ manager.constructed
    /\ ret.op = "get_provider_status"
    /\ ret.status = "return"

\* ---------------------------------------------------------------- C11

\* C11 as stated: every value generate_file_analysis returns, through
\* any path, carries all six fields and none of them is null
C11_FullyPopulated ==
    (ret.op = "generate_file_analysis" /\ ret.status = "return")
        => /\ AnalysisFields \subseteq DOMAIN ret.value
           /\ ret.transport = "null" => ret.value.description # None

\* C11: a value generate_file_analysis returns through the wrapped-text
\* stub or the mock carries exactly the six fields; the stub's description
\* is the reply content itself (null when the content is null) and its
\* other fields are fixed non-null values, the mock's fields are all
\* non-null; a parsed reply is returned as parsed, whatever its fields
C11_StubAndMockPopulated ==
    (ret.op = "generate_file_analysis" /\ ret.status = "return")
        => /\ ret.path \in {"wrapped", "mock"}
                => /\ DOMAIN ret.value = AnalysisFields
                   /\ ret.value.file_name = ret.args.name
                   /\ ret.value.purpose # None
                   /\ ret.value.complexity # None
           /\ ret.path = "wrapped"
                => /\ ret.transport = "null"
                        => ret.value.description = None
                   /\ ret.transport = "ok"
                        => ret.value.description = ret.reply
                   /\ ret.value.key_components = <<>>
                   /\ ret.value.dependencies = <<>>
           /\ ret.path = "mock"
                => /\ Len(ret.value.description) > 0
                   /\ Len(ret.value.key_components) > 0
                   /\ Len(ret.value.dependencies) > 0
           /\ ret.path = "parsed"
                => ret.value \in {EmptyDict, [name |-> "main"]}

\* a wrapped-text stub built from a reply whose content is null
C11_Witness ==
    /\ ret.op = "generate_file_analysis"
    /\ ret.status = "return"
    /\ ret.path = "wrapped"
    /\ ret.transport = "null"
    /\ ret.value.description = None

\* ---------------------------------------------------------------- C12

\* a reply text with no "{" that has a "}" somewhere after it
NoBlock(reply) ==
    ~\E i \in 1..Len(reply), j \in 1..Len(reply) :
        i < j /\ reply[i] = "{" /\ reply[j] = "}"

Prose(n) == [i \in 1..n |-> "w"]

\* the valid JSON object blocks a reply can hold, each with its parse
Blocks ==
    {[text |-> <<"{", "}">>, parse |-> EmptyDict],
     [text |-> <<"{", "w", "}">>, parse |-> [name |-> "main"]]}

\* C13: when the reply is prose around a single valid JSON object block,
\* generate_file_analysis and generate_repository_summary return exactly
\* the parse of that block: no prose in it, no fallback field added
C13_RoundTrip ==
    \A block \in Blocks, m \in 0..MaxReply, n \in 0..MaxReply :
        (/\ ret.op \in {"generate_file_analysis",
                        "generate_repository_summary"}
         /\ ret.status = "return"
         /\ ret.transport = "ok"
         /\ ret.reply = Prose(m) \o block.text \o Prose(n))
            => /\ ret.path = "parsed"
               /\ ret.value = block.parse

\* a file analysis parsed out of a reply with prose on both sides of the
\* block
C13_Witness ==
    /\ ret.op = "generate_file_analysis"
    /\ ret.status = "return"
    /\ ret.transport = "ok"
    /\ ret.reply = <<"w", "{", "}", "w">>
    /\ ret.path = "parsed"
    /\ ret.value = EmptyDict

\* ---------------------------------------------------------------- C14

\* text a is the first TextLen(a) characters of text b
IsPrefix(a, b) ==
    \/ a = <<>>
    \/ /\ Len(a) <= Len(b)
       /\ \A i \in 1..(Len(a) - 1) : a[i] = b[i]
       /\ a[Len(a)].ch = b[Len(a)].ch
       /\ a[Len(a)].n <= b[Len(a)].n

\* what the file content contributes to the user message of the
\* file-analysis request in flight: all behind the five leading pieces
Excerpt == SubSeq(call.request.user, 6, Len(call.request.user))

\* C14: in the file-analysis request of every adapter, content longer than
\* 4000 characters contributes its first 4000 characters followed by the
\* truncation marker; content of 4000 characters or fewer contributes
\* itself, unmodified and with no marker
C14_ContentCapping ==
    (call.active /\ call.op = "generate_file_analysis")
        => LET content == call.input.file_info.content
           IN  /\ TextLen(content) > 4000
                    => /\ Len(Excerpt) > 0
                       /\ <<Excerpt[Len(Excerpt)]>> = Truncated
                       /\ LET body == SubSeq(Excerpt, 1, Len(Excerpt) - 1)
                          IN  /\ TextLen(body) = 4000
                              /\ IsPrefix(body, content)
               /\ TextLen(content) <= 4000 => Excerpt = content

\* a request in flight for a file of 4001 characters, its excerpt capped
C14_Witness ==
    /\ call.active
    /\ call.op = "generate_file_analysis"
    /\ TextLen(call.input.file_info.content) = 4001
    /\ TextLen(Excerpt) = 4001
    /\ <<Excerpt[Len(Excerpt)]>> = Truncated

\* ---------------------------------------------------------------- C15

\* an adapter whose client handle failed to construct: it was given a
\* key, tried to build its handle and holds none
HandleFailed(self) ==
    /\ self.cls \in {"OpenAI", "Gemini"}
    /\ Truthy(self.api_key)
    /\ self.client = None

\* C15: an adapter whose client handle failed to construct stays as it is
\* and unavailable through every call made on it or on its Manager (only
\* constructing a new Manager replaces it), and a generate_* call on it
\* answers with the mock without sending a request
C15_FailedHandleStaysUnavailable ==
    [][/\ ret'.op # "AIManager"
          => \A i \in 1..Len(manager.providers) :
                HandleFailed(manager.providers[i].adapter)
                    => /\ Len(manager'.providers) >= i
                       /\ manager'.providers[i] = manager.providers[i]
                       /\ ~IsAvailable(manager'.providers[i].adapter)
       /\ (ret'.op \in Ops /\ ret'.status = "return")
          => \A i \in 1..Len(manager'.providers) :
                (/\ manager'.providers[i].key = ret'.key
                 /\ HandleFailed(manager'.providers[i].adapter))
                    => ret'.path = "mock" /\ ret'.requests = 0]_vars

\* a generate_* call has run on a registered adapter whose handle failed
C15_Witness ==
    /\ ret.op = "generate_file_analysis"
    /\ ret.status = "return"
    /\ ret.requests = 0
    /\ \E i \in 1..Len(manager.providers) :
          /\ manager.providers[i].key = ret.key
          /\ HandleFailed(manager.providers[i].adapter)
          /\ ~IsAvailable(manager.providers[i].adapter)

\* ---------------------------------------------------------------- C16

\* the result of a generate_* call that went to the Manager's Mock
\* adapter: it came back from the Mock class, or the Manager raised on
\* the way to it
AgainstManagerMock(r) ==
    \/ r.status = "raise" /\ r.entry = "manager"
    \/ r.status = "return" /\ r.cls = "Mock"

\* C16: generate_file_analysis against the Mock adapter obtained from the
\* Manager yields, on every call with the same file descriptor, the one
\* output that descriptor determines: two such calls give identical output
C16_MockIdempotent ==
    (/\ ret.op = "generate_file_analysis"
     /\ \A b \in BackendSet : ~Usable(b)
     /\ AgainstManagerMock(ret))
        => /\ ret.status = "return"
           /\ ret.value = MockFileAnalysis("Mock", ret.args)

\* ---------------------------------------------------------------- C17

\* C17: generate_architecture_diagram on an available adapter whose call
\* succeeds returns the reply text verbatim, for every reply text, with
\* braces or without: nothing is extracted, parsed or substituted
C17_DiagramVerbatim ==
    (/\ ret.op = "generate_architecture_diagram"
     /\ ret.status = "return"
     /\ ret.transport = "ok")
        => /\ ret.value = ret.reply
           /\ ret.path = "text"
           /\ ret.requests = 1

\* a diagram reply with prose around a JSON object block, returned whole
C17_Witness ==
    /\ ret.op = "generate_architecture_diagram"
    /\ ret.status = "return"
    /\ ret.transport = "ok"
    /\ ret.reply = <<"w", "{", "}", "w">>
    /\ ret.value = <<"w", "{", "}", "w">>

\* ---------------------------------------------------------------- C18

\* the names an insertion-ordered dict holds
KeySet(items) == {items[i].key : i \in 1..Len(items)}

\* the backends whose credential in the process environment is truthy
EnvironKeys == {b \in BackendSet : Truthy(environ[b])}

\* C18: a step that changes credentials in the process environment leaves
\* the existing Manager, its providers map included, as it was, and so the
\* results of get_available_providers, get_provider and
\* get_provider_status on it; what a query answers afterwards names the
\* adapters the Manager has held since its construction
C18_AdapterSetFixed ==
    [][/\ environ' # environ
          => /\ manager' = manager
             /\ GetAvailableProviders(manager')
                    = GetAvailableProviders(manager)
             /\ GetProviderStatus(manager') = GetProviderStatus(manager)
             /\ \A n \in ProviderNames :
                    GetProvider(manager', n) = GetProvider(manager, n)
       /\ ret'.op = "get_provider_status"
          => KeySet(ret'.value) = KeySet(manager.providers)
       /\ ret'.op = "get_available_providers"
          => {ret'.value[i] : i \in 1..Len(ret'.value)}
                \subseteq KeySet(manager.providers)]_vars

\* the status of an existing Manager asked for after the environment has
\* come to hold other credentials than the Manager's adapters
C18_Witness ==
    /\ manager.constructed
    /\ ret.op = "get_provider_status"
    /\ KeySet(ret.value) = KeySet(manager.providers)
    /\ KeySet(ret.value) # EnvironKeys

\* ---------------------------------------------------------------- C19

\* C19: a Manager constructed after credentials were changed at runtime
\* sees the change: the adapters it registers, and the status the
\* dashboard renders from the Manager it builds after its POST, are those
\* of the credentials the process environment holds now
C19_NewManagerSeesChange ==
    /\ (ret.op = "AIManager" /\ ret.status = "return")
            => KeySet(manager.providers) = EnvironKeys
    /\ (ret.op = "dashboard" /\ ret.status = "return")
            => KeySet(ret.providers) = EnvironKeys

\* ---------------------------------------------------------------- C20

\* what the generate_* call behind result r returns when it runs with no
\* other call beside it
AloneValue(r) ==
    IF r.requests = 0
    THEN MockResult(r.cls, r.op, r.args)
    ELSE Outcome([self |-> [cls |-> r.cls], op |-> r.op, args |-> r.args],
                 r.transport, r.reply).value

\* C20: no generate_*, is_available or get_usage_info call changes an
\* adapter's credential, enabled flag or client handle, nor the Manager's
\* providers map; a call that returns while others are in flight returns
\* what it returns run alone, and leaves the other workers' calls and
\* results as they are
C20_StatelessInterleaving ==
    [][/\ manager' = manager
       /\ \A w \in Workers :
             ret'[w] # ret[w]
                => /\ \A v \in Workers \ {w} :
                         ret'[v] = ret[v] /\ call'[v] = call[v]
                   /\ (ret'[w].op \in Ops /\ ret'[w].status = "return")
                         => ret'[w].value = AloneValue(ret'[w])]_vars

\* one worker's request has failed while another worker's call on the
\* same adapter is in flight
C20_Witness ==
    /\ call["job2"].active
    /\ ret["job1"].op \in Ops
    /\ ret["job1"].status = "return"
    /\ ret["job1"].transport = "error"
    /\ ret["job1"].key = call["job2"].key
    /\ IsAvailable(Lookup(manager, call["job2"].key).adapter)

\* ---------------------------------------------------------------- C21

\* the adapter constructed with these arguments is unavailable: it was
\* given no credential, or its client handle failed to construct
BuiltUnavailable(key) ==
    \/ ~Truthy(key.api_key)
    \/ key.backend \in SdkBackends /\ ~key.sdkOk

\* C21: on an unavailable adapter each generate_* method returns the mock
\* result at once: no request to the backend is in flight for such an
\* adapter at any time, and its result counts no request
C21_UnavailableReturnsMock ==
    /\ call.active => ~BuiltUnavailable(call.key)
    /\ (ret.op \in Ops /\ ret.status = "return"
            /\ BuiltUnavailable(ret.key))
          => /\ ret.path = "mock"
             /\ ret.requests = 0
             /\ ret.transport = None
             /\ ret.op = "generate_file_analysis"
                    => ret.value.file_name = ret.args.name
             /\ ret.op = "generate_repository_summary"
                    => ret.value.repository_name = ret.args.name

\* a repository summary asked of a Gemini adapter that was given an empty
\* key
C21_Witness ==
    /\ ret.op = "generate_repository_summary"
    /\ ret.status = "return"
    /\ ret.key.backend = "gemini"
    /\ ret.key.api_key = ""
    /\ ret.path = "mock"
    /\ ret.requests = 0

\* ---------------------------------------------------------------- C22

\* C22: a call sends at most one request and never retries; the step that
\* ends the request in flight ends the call, whose result comes from the
\* adapter the call went to, counts that one request and, after a
\* failure, is that adapter's mock: the Manager does not go on to another
\* adapter
C22_AtMostOneRequest ==
    [][/\ call.active
          => /\ ~call'.active
             /\ ret'.op = call.op
             /\ ret'.status = "return"
             /\ ret'.requests = 1
             /\ ret'.key = call.key
             /\ ret'.cls = call.self.cls
             /\ ret'.transport = "error" => ret'.path = "mock"
       /\ (ret'.op \in Ops /\ ret'.status \in {"return", "raise"})
          => ret'.requests <= 1]_vars

\* a request of the first of two available adapters has failed and the
\* call has ended with that adapter's mock
C22_Witness ==
    /\ ret.op \in Ops
    /\ ret.status = "return"
    /\ ret.transport = "error"
    /\ ret.requests = 1
    /\ ret.path = "mock"
    /\ ret.key = "openai"
    /\ ret.cls = "OpenAI"
    /\ GetAvailableProviders(manager) = <<"openai", "gemini">>

\* ---------------------------------------------------------------- C23

\* a reply text with a brace-delimited candidate: a "{" with a "}" behind
HasCandidate(reply) ==
    \E i \in 1..Len(reply), j \in 1..Len(reply) :
        i < j /\ reply[i] = "{" /\ reply[j] = "}"

\* the candidate of a reply that has one: from its first "{" to its last "}"
Candidate(reply) ==
    LET first == CHOOSE i \in 1..Len(reply) :
                    /\ reply[i] = "{"
                    /\ \A k \in 1..(i - 1) : reply[k] # "{"
        last == CHOOSE j \in 1..Len(reply) :
                    /\ reply[j] = "}"
                    /\ \A k \in (j + 1)..Len(reply) : reply[k] # "}"
    IN  SubSeq(reply, first, last)

\* C23: when a file-analysis reply holds a brace-delimited candidate that
\* fails to parse, the result is the wrapped-text stub and not the mock:
\* file_name is the input name, description the raw reply text,
\* key_components and dependencies are empty
C23_UnparsableYieldsStub ==
    (/\ ret.op = "generate_file_analysis"
     /\ ret.status = "return"
     /\ ret.transport = "ok"
     /\ HasCandidate(ret.reply)
     /\ \A block \in Blocks : Candidate(ret.reply) # block.text)
        => /\ ret.path = "wrapped"
           /\ DOMAIN ret.value = AnalysisFields
           /\ ret.value.file_name = ret.args.name
           /\ ret.value.description = ret.reply
           /\ ret.value.key_components = <<>>
           /\ ret.value.dependencies = <<>>

\* a reply with two objects side by side: the candidate runs from the
\* first "{" to the last "}" and does not parse
C23_Witness ==
    /\ ret.op = "generate_file_analysis"
    /\ ret.status = "return"
    /\ ret.reply = <<"{", "}", "{", "}">>
    /\ ret.path = "wrapped"
    /\ ret.value.description = <<"{", "}", "{", "}">>

\* ---------------------------------------------------------------- C24

\* C24 as stated: the description of the wrapped-text stub never exceeds
\* the fixed prefix length plus the ellipsis, whatever the reply length
C24_DescriptionBounded ==
    (ret.op = "generate_file_analysis" /\ ret.path = "wrapped")
        => TextLen(ret.value.description) <= 500 + 3

\* C24: the stub of LLMService holds the reply itself as description when
\* the reply has at most 500 characters and otherwise its first 500
\* characters followed by "..."; the stub of the provider adapters holds
\* the whole reply as description, whatever its length
C24_PrefixOnlyInLLMService ==
    (ret.op = "generate_file_analysis" /\ ret.path = "wrapped")
        => LET description == ret.value.description
               n == TextLen(ret.reply)
           IN  /\ (ret.service = "LLMService" /\ n <= 500)
                      => description = ret.reply
               /\ (ret.service = "LLMService" /\ n > 500)
                      => /\ TextLen(description) = 500 + 3
                         /\ <<description[Len(description)]>> = Ellipsis
                         /\ IsPrefix(SubSeq(description, 1,
                                            Len(description) - 1),
                                     ret.reply)
               /\ ret.service # "LLMService" => description = ret.reply

\* LLMService has cut a reply of 501 characters down to its prefix
C24_Witness ==
    /\ ret.op = "generate_file_analysis"
    /\ ret.path = "wrapped"
    /\ ret.service = "LLMService"
    /\ TextLen(ret.reply) = 501
    /\ TextLen(ret.value.description) = 503

\* ---------------------------------------------------------------- C25

\* the summary call in flight, had it been made with the file_analyses
\* list a instead of its own
WithFileAnalyses(a) ==
    LET input == [repo_data |-> call.input.repo_data, file_analyses |-> a]
    IN  [call EXCEPT !.input = input,
                     !.args = Brief(call.op, input),
                     !.request = RequestOf(call.self, call.op, input)]

\* C25: the request generate_repository_summary builds holds the
\* repository's name, per-language file counts, file count and size and
\* nothing of file_analyses: the same call made with any other
\* file_analyses list builds the identical request and, given the same
\* outcome of the request, returns the identical result
C25_FileAnalysesIgnored ==
    (call.active /\ call.op = "generate_repository_summary")
        => /\ call.request.user[2] =
                 [name |-> call.input.repo_data.name,
                  languages |-> call.input.repo_data.languages,
                  file_count |-> call.input.repo_data.file_count,
                  size_mb |-> call.input.repo_data.size_mb]
           /\ \A a \in FileAnalysesArgs :
                 /\ WithFileAnalyses(a).request = call.request
                 /\ \A transport \in Transports, reply \in Replies :
                       Finish(WithFileAnalyses(a), transport, reply)
                          = Finish(call, transport, reply)

\* a summary request in flight for a call that was given a file analysis
C25_Witness ==
    /\ call.active
    /\ call.op = "generate_repository_summary"
    /\ call.input.file_analyses = <<[file_name |-> "app.py"]>>
    /\ call.input.repo_data.name = "demo"

\* ---------------------------------------------------------------- C26

\* the order of the statuses of a task that does not fail
Lifecycle ==
    {<<"started", "cloning">>, <<"cloning", "analyzing">>,
     <<"analyzing", "generating">>, <<"generating", "completed">>}

Terminal == {"completed", "failed"}

\* C26: the status of every task in processing_status only moves along
\* started -> cloning -> analyzing -> generating -> completed, or from a
\* non-terminal status to failed; once a task is completed or failed its
\* status, result and error never change again, and an id whose task was
\* removed is not given a task again
C26_TaskLifecycle ==
    [][/\ \A t \in DOMAIN processing_status \cap DOMAIN processing_status' :
             LET old == processing_status[t]
                 new == processing_status'[t]
             IN  /\ \/ new.status = old.status
                    \/ <<old.status, new.status>> \in Lifecycle
                    \/ old.status \notin Terminal /\ new.status = "failed"
                 /\ old.status \in Terminal
                       => /\ new.status = old.status
                          /\ new.result = old.result
                          /\ new.error = old.error
       /\ \A t \in DOMAIN threads \ DOMAIN processing_status :
             t \notin DOMAIN processing_status']_vars

\* one task has run to completed and another has failed
C26_Witness ==
    \E t \in DOMAIN processing_status, u \in DOMAIN processing_status :
        /\ processing_status[t].status = "completed"
        /\ processing_status[u].status = "failed"
        /\ threads[t] = "done"
        /\ threads[u] = "done"

\* ---------------------------------------------------------------- C27

\* C27: a task that is not yet completed or failed is never removed from
\* processing_status, by the cleanup thread or by /status, so every
\* status update of a task's background thread finds the entry present
\* (no thread ends on the KeyError of a missing entry)
C27_RunningTaskNeverRemoved ==
    [][/\ \A t \in DOMAIN processing_status :
             processing_status[t].status \notin Terminal
                => t \in DOMAIN processing_status'
       /\ \A t \in DOMAIN threads' : threads'[t] # "dead"]_vars

\* ---------------------------------------------------------------- C28

\* C28: each task in processing_status has a non-null result iff its
\* status is completed, a non-null error iff its status is failed, and
\* progress 100 iff its status is completed
C28_ResultErrorProgress ==
    \A t \in DOMAIN processing_status :
        LET task == processing_status[t]
        IN  /\ task.result # None <=> task.status = "completed"
            /\ task.error # None <=> task.status = "failed"
            /\ task.progress = 100 <=> task.status = "completed"

\* a completed task holding its tutorial beside a failed one holding its
\* error
C28_Witness ==
    \E t \in DOMAIN processing_status, u \in DOMAIN processing_status :
        /\ processing_status[t].status = "completed"
        /\ processing_status[t].result = "tutorial"
        /\ processing_status[t].progress = 100
        /\ processing_status[u].status = "failed"
        /\ processing_status[u].error # None
        /\ processing_status[u].progress = 0

\* ---------------------------------------------------------------- C29

Removed == DOMAIN threads \ DOMAIN processing_status

====
